---- MODULE Spec2Model ----
(***************************************************************************)
(* PDF text extractor server (server.js): the upload endpoint              *)
(* POST /extract-text (multer disk storage, file filter, size limit,       *)
(* handler, cleanup, error middleware) and the URL endpoint                *)
(* POST /extract-text-url (Google Drive link conversion, fetch, parse).    *)
(*                                                                         *)
(* Strings that the code inspects are sequences of symbols: a text is a    *)
(* sequence of characters, a url a sequence of url symbols (the literal    *)
(* "https://drive.google.com/file/d/" is one symbol), an error message a  *)
(* sequence of parts (a template literal is the sequence of its pieces).   *)
(* A request is one slot of req; a handler runs atomically between two     *)
(* awaits, as on the single JavaScript thread.                             *)
(***************************************************************************)
EXTENDS Integers, Sequences, FiniteSets, TLC

VARIABLES req, disk, now

vars == <<req, disk, now>>

\* ---------------------------------------------------------------- bounds
NumReq == 2
MaxClock == 1
MaxRand == 1
MaxTextLen == 3
MaxUrlLen == 3

Req == 1..NumReq

SeqsUpTo(S, n) == UNION {[1..k -> S] : k \in 0..n}

\* ------------------------------------------------------- inputs: uploads
PdfMime == "application/pdf"
Mimetypes == {PdfMime, "text/plain"}
\* path.extname(file.originalname) of the uploaded file
Extnames == {".pdf", ".PDF", ".txt"}

\* upload.limits.fileSize
fileSizeDecimal == 10 * 1000 * 1000
fileSize == 10 * 1024 * 1024

UploadSizes == {10485759, 10485760, 10485761}

NoUpload == [hasFile |-> FALSE, mimetype |-> "", extname |-> "", size |-> 0]
Uploads ==
    {NoUpload} \cup
    {[hasFile |-> TRUE, mimetype |-> m, extname |-> e, size |-> s] :
        m \in Mimetypes, e \in Extnames, s \in UploadSizes}
\* the uploads of the concurrent scenario: one of each fate
SampleUploads ==
    {NoUpload,
     [hasFile |-> TRUE, mimetype |-> "text/plain", extname |-> ".txt", size |-> 10485760],
     [hasFile |-> TRUE, mimetype |-> PdfMime, extname |-> ".pdf", size |-> 10485761],
     [hasFile |-> TRUE, mimetype |-> PdfMime, extname |-> ".pdf", size |-> 10485760]}

\* --------------------------------------------------------- inputs: texts
Whitespace == {" ", "\n"}
TextAlphabet == {"a"} \cup Whitespace
Texts == SeqsUpTo(TextAlphabet, MaxTextLen)
SampleTexts == {<<"a", " ", "a">>}
ParserMessages == {"Invalid PDF structure"}

NoOutcome == [kind |-> "none", text |-> <<>>, message |-> ""]
\* what pdfParse settles with: resolves with a text, or rejects with a message
ParseOutcomes(texts) ==
    {[kind |-> "ok", text |-> t, message |-> ""] : t \in texts} \cup
    {[kind |-> "reject", text |-> <<>>, message |-> m] : m \in ParserMessages}

\* faults of the file system calls made by cleanupFile
CleanupFaults == {"none", "existsSync", "unlinkSync"}

\* ---------------------------------------------------------- inputs: urls
DrivePrefix == "https://drive.google.com/file/d/"
DownloadPrefix == "https://drive.google.com/uc?export=download&id="
\* [a-zA-Z0-9_-]
IdChars == {"a", "_"}
UrlAlphabet == {DrivePrefix, "/", "?"} \cup IdChars
Urls == SeqsUpTo(UrlAlphabet, MaxUrlLen)
\* req.body of POST /extract-text-url: url absent, or a string (maybe empty)
UrlBodies ==
    {[filename |-> "doc.pdf"]} \cup
    {[url |-> u, filename |-> "doc.pdf"] : u \in Urls}

\* what fetch(processedUrl) and response.arrayBuffer() settle with
FetchOutcomes ==
    {[kind |-> "reject", text |-> <<>>, message |-> "fetch failed"],
     [kind |-> "notok", text |-> <<>>, message |-> "Not Found"],
     [kind |-> "notok", text |-> <<>>, message |-> "Forbidden"],
     [kind |-> "body", text |-> <<>>, message |-> "terminated"],
     [kind |-> "ok", text |-> <<>>, message |-> ""]}

\* ------------------------------------------------------------ the state
NoPath == <<>>
NoFile == [set |-> FALSE, path |-> NoPath, size |-> 0]

IdleReq ==
    [pc |-> "idle", kind |-> "none",
     upload |-> NoUpload, body |-> [filename |-> ""],
     path |-> NoPath, file |-> NoFile, buffer |-> 0,
     processedUrl |-> <<>>,
     fetched |-> NoOutcome, parsed |-> NoOutcome, readFailed |-> FALSE,
     logged |-> 0,
     events |-> <<>>, res |-> <<>>]

Init ==
    /\ req = [r \in Req |-> IdleReq]
    /\ disk = {}
    /\ now = 0

\* ------------------------------------------------------------- the disk
\* the scratch directory (uploadsDir): a set of files, at most one per path;
\* bytes names the request whose upload the file holds
Exists(d, p) == \E f \in d : f.path = p
RemoveFile(d, p) == {f \in d : f.path # p}
WriteFile(d, p, owner) == RemoveFile(d, p) \cup {[path |-> p, bytes |-> owner]}
ReadFile(d, p) == (CHOOSE f \in d : f.path = p).bytes

\* ------------------------------------------------------- pure functions
\* String.prototype.toLowerCase on an extension
toLowerCase(e) == IF e = ".PDF" THEN ".pdf" ELSE e

\* storage.filename: fieldname-Date.now()-Math.round(Math.random()*1e9)ext
filename(fieldname, time, rnd, ext) == <<fieldname, time, rnd, ext>>

\* upload.fileFilter: the error passed to cb, "" when the file is accepted
fileFilterInverted(file) ==
    IF file.mimetype = PdfMime \/ toLowerCase(file.extname) # ".pdf"
    THEN ""
    ELSE "Only PDF files are allowed!"
fileFilter(file) ==
    IF file.mimetype = PdfMime \/ toLowerCase(file.extname) = ".pdf"
    THEN ""
    ELSE "Only PDF files are allowed!"

\* multer's limit: the transfer is aborted once more than fileSize bytes came
LimitExceeded(size) == size > fileSize

\* text.split(/\s+/): the pieces between the maximal runs of whitespace,
\* empty pieces at the ends included
RECURSIVE SkipWhitespace(_, _)
SkipWhitespace(t, i) ==
    IF i <= Len(t) /\ t[i] \in Whitespace THEN SkipWhitespace(t, i + 1) ELSE i
RECURSIVE SplitFrom(_, _, _, _)
SplitFrom(t, i, cur, out) ==
    IF i > Len(t) THEN Append(out, cur)
    ELSE IF t[i] \in Whitespace
         THEN SplitFrom(t, SkipWhitespace(t, i), <<>>, Append(out, cur))
         ELSE SplitFrom(t, i + 1, Append(cur, t[i]), out)
split(t) == SplitFrom(t, 1, <<>>, <<>>)

NonEmptyWord(word) == Len(word) > 0
\* text.split(/\s+/).filter((word) => word.length > 0).length
wordCountUnfiltered(text) == Len(split(text))
wordCount(text) == Len(SelectSeq(split(text), NonEmptyWord))
textLength(text) == Len(text)

\* url.match(driveRegex): the leftmost DrivePrefix followed by an id
\* character, 0 when there is none
MatchStarts(url) ==
    {i \in 1..Len(url) :
        url[i] = DrivePrefix /\ i + 1 <= Len(url) /\ url[i + 1] \in IdChars}
Min(S) == CHOOSE x \in S : \A y \in S : x <= y
RECURSIVE IdRun(_, _)
\* ([a-zA-Z0-9_-]+): the longest run of id characters from position i
IdRun(url, i) ==
    IF i <= Len(url) /\ url[i] \in IdChars
    THEN <<url[i]>> \o IdRun(url, i + 1)
    ELSE <<>>
convertGoogleDriveUrl(url) ==
    IF MatchStarts(url) # {}
    THEN <<DownloadPrefix>> \o IdRun(url, Min(MatchStarts(url)) + 1)
    ELSE url

\* ------------------------------------------------------------ responses
\* res.json without the return that ends the handler
SendAndContinue(rq, status, body) ==
    [rq EXCEPT !.res = Append(@, [status |-> status, body |-> body]),
               !.events = Append(@, "respond")]

\* res.status(status).json(body): the response is appended to the request's
\* responses and the request is over
Send(rq, status, body) ==
    [rq EXCEPT !.res = Append(@, [status |-> status, body |-> body]),
               !.events = Append(@, "respond"),
               !.pc = "done"]

MulterError(code) == [multer |-> TRUE, code |-> code, message |-> "File too large"]
Error(message) == [multer |-> FALSE, code |-> "", message |-> message]

\* the error handling middleware: the response for an error passed to next()
errorMiddleware(error) ==
    IF error.multer /\ error.code = "LIMIT_FILE_SIZE"
    THEN [status |-> 400,
          body |-> [error |-> "File too large",
                    message |-> <<"PDF file size must be less than 10MB">>]]
    ELSE IF error.message = "Only PDF files are allowed!"
    THEN [status |-> 400,
          body |-> [error |-> "Invalid file type",
                    message |-> <<"Only PDF files are allowed">>]]
    ELSE [status |-> 500,
          body |-> [error |-> "Internal server error",
                    message |-> <<"Something went wrong processing your request">>]]

\* -------------------------------------------------------------- cleanup
NoCleanup(d) == [disk |-> d, threw |-> FALSE, logged |-> 0, unlinked |-> FALSE]

\* cleanupFile without its try/catch: the fault leaves the function
cleanupFileNoCatch(d, filePath, fault) ==
    IF fault = "existsSync"
    THEN [disk |-> d, threw |-> TRUE, logged |-> 0, unlinked |-> FALSE]
    ELSE IF Exists(d, filePath)
         THEN IF fault = "unlinkSync"
              THEN [disk |-> d, threw |-> TRUE, logged |-> 0, unlinked |-> FALSE]
              ELSE [disk |-> RemoveFile(d, filePath), threw |-> FALSE, logged |-> 0,
                    unlinked |-> TRUE]
         ELSE NoCleanup(d)
\* cleanupFile that checks the file but never unlinks it
cleanupFileNoUnlink(d, filePath, fault) ==
    IF fault = "existsSync"
    THEN [disk |-> d, threw |-> FALSE, logged |-> 1, unlinked |-> FALSE]
    ELSE NoCleanup(d)
\* cleanupFile(filePath) on disk d, fault being the file system call that
\* throws in it: the disk afterwards, whether an exception left the function,
\* how many errors it logged, whether it unlinked the file
cleanupFile(d, filePath, fault) ==
    IF fault = "existsSync"
    THEN [disk |-> d, threw |-> FALSE, logged |-> 1, unlinked |-> FALSE]
    ELSE IF Exists(d, filePath)
         THEN IF fault = "unlinkSync"
              THEN [disk |-> d, threw |-> FALSE, logged |-> 1, unlinked |-> FALSE]
              ELSE [disk |-> RemoveFile(d, filePath), threw |-> FALSE, logged |-> 0,
                    unlinked |-> TRUE]
         ELSE NoCleanup(d)

\* the request after a call of cleanupFile that returned c
Cleaned(rq, c) ==
    [rq EXCEPT !.logged = @ + c.logged,
               !.events = @ \o <<"cleanupFile">> \o
                              (IF c.unlinked THEN <<"unlink">> ELSE <<>>)]

\* ------------------------------------------------- POST /extract-text
\* the catch block of the handler, entered with error.message = message
extractTextCatch(rq, d, message, fault) ==
    LET called == rq.file.set /\ rq.file.path # NoPath
        c == IF called THEN cleanupFile(d, rq.file.path, fault) ELSE NoCleanup(d)
        after == IF called THEN Cleaned(rq, c) ELSE rq
    IN  IF c.threw
        THEN \* the exception leaves the async handler: nothing is sent
             [req |-> [after EXCEPT !.pc = "done"], disk |-> c.disk]
        ELSE [req |-> Send(after, 500,
                           [error |-> "Failed to extract text from PDF",
                            message |-> message,
                            success |-> FALSE]),
              disk |-> c.disk]

\* !req.file
missingFile(file) == ~file.set

\* the handler up to its await: the missing-file check, readFileSync and
\* the call of pdfParse
extractText(rq, d, readFault, fault) ==
    IF missingFile(rq.file)
    THEN [req |-> Send(rq, 400,
                       [error |-> "No PDF file uploaded",
                        message |-> <<"Please upload a PDF file using the \"pdf\" field">>]),
          disk |-> d]
    ELSE IF ~Exists(d, rq.file.path) \/ readFault
    THEN extractTextCatch(
             [rq EXCEPT !.readFailed = TRUE, !.events = Append(@, "readFileSync")],
             d, <<"ENOENT: no such file or directory">>, fault)
    ELSE [req |-> [rq EXCEPT !.buffer = ReadFile(d, rq.file.path),
                             !.pc = "parsing",
                             !.events = @ \o <<"readFileSync", "pdfParse">>],
          disk |-> d]

\* what res.json(result) throws when the result cannot be serialised
JsonError == "Converting circular structure to JSON"

\* the handler after its await, pdfParse having settled with outcome; fault
\* is the fault of the first call of cleanupFile, jsonFault whether
\* res.json(result) throws, catchFault the fault of the call of cleanupFile
\* in the catch block that this throw leads to
extractTextSettled(rq, d, outcome, fault, jsonFault, catchFault) ==
    IF outcome.kind = "ok"
    THEN LET result == [success |-> TRUE,
                        fileSize |-> rq.file.size,
                        text |-> outcome.text,
                        textLength |-> textLength(outcome.text),
                        wordCount |-> wordCount(outcome.text)]
             c == cleanupFile(d, rq.file.path, fault)
             cleaned == Cleaned(rq, c)
         IN  IF c.threw
             THEN extractTextCatch(cleaned, c.disk, <<fault>>, fault)
             ELSE IF jsonFault
             THEN extractTextCatch(
                      [cleaned EXCEPT !.events = Append(@, "jsonThrow")],
                      c.disk, <<JsonError>>, catchFault)
             ELSE [req |-> Send(cleaned, 200, result), disk |-> c.disk]
    ELSE extractTextCatch(rq, d, <<outcome.message>>, fault)

\* upload.single("pdf") receives the request: no file part, a file the
\* filter rejects, or a file that disk storage starts to write under a
\* generated name
upload_single(r, uploads) ==
    /\ req[r].pc = "idle"
    /\ \E u \in uploads, rnd \in 0..MaxRand :
         LET rq == [req[r] EXCEPT !.kind = "upload", !.upload = u]
             name == filename("pdf", now, rnd, u.extname)
         IN  IF ~u.hasFile
             THEN /\ req' = [req EXCEPT ![r] = extractText(rq, disk, FALSE, "none").req]
                  /\ disk' = disk
             ELSE IF fileFilter(u) # ""
             THEN LET e == errorMiddleware(Error(fileFilter(u)))
                  IN  /\ req' = [req EXCEPT ![r] = Send(rq, e.status, e.body)]
                      /\ disk' = disk
             ELSE /\ req' = [req EXCEPT ![r] =
                                [rq EXCEPT !.pc = "staged", !.path = name,
                                           !.events = Append(@, "stage")]]
                  /\ disk' = WriteFile(disk, name, r)
    /\ UNCHANGED now

\* the transfer ends: over the limit multer removes the file and passes
\* LIMIT_FILE_SIZE to the error middleware, otherwise req.file is set and
\* the handler runs up to its await
upload_end(r, readFaults, faults) ==
    /\ req[r].pc = "staged"
    /\ \E readFault \in readFaults, fault \in faults :
         IF LimitExceeded(req[r].upload.size)
         THEN LET e == errorMiddleware(MulterError("LIMIT_FILE_SIZE"))
                  rq == [req[r] EXCEPT !.events = Append(@, "multerRemove")]
              IN  /\ req' = [req EXCEPT ![r] = Send(rq, e.status, e.body)]
                  /\ disk' = RemoveFile(disk, req[r].path)
         ELSE LET rq == [req[r] EXCEPT !.file = [set |-> TRUE, path |-> req[r].path,
                                                 size |-> req[r].upload.size]]
                  h == extractText(rq, disk, readFault, fault)
              IN  /\ req' = [req EXCEPT ![r] = h.req]
                  /\ disk' = h.disk
    /\ UNCHANGED now

\* pdfParse settles and the handler of /extract-text resumes
extractText_resume(r, texts, faults) ==
    /\ req[r].pc = "parsing"
    /\ req[r].kind = "upload"
    /\ \E outcome \in ParseOutcomes(texts), fault \in faults :
       \E jsonFault \in IF outcome.kind = "ok" THEN BOOLEAN ELSE {FALSE} :
       \E catchFault \in IF jsonFault THEN faults ELSE {"none"} :
         LET h == extractTextSettled([req[r] EXCEPT !.parsed = outcome], disk,
                                     outcome, fault, jsonFault, catchFault)
         IN  /\ req' = [req EXCEPT ![r] = h.req]
             /\ disk' = h.disk
    /\ UNCHANGED now

\* Date.now() advances
Tick ==
    /\ now < MaxClock
    /\ now' = now + 1
    /\ UNCHANGED <<req, disk>>

\* ---------------------------------------------- POST /extract-text-url
\* !url for a url that is undefined only
missingUrlUndefinedOnly(body) == "url" \notin DOMAIN body
\* !url: url undefined or the empty string
missingUrl(body) == "url" \notin DOMAIN body \/ body.url = <<>>

\* a catch block that hides the error text
extractTextUrlCatchGeneric(rq, message) ==
    Send(rq, 500,
         [error |-> "Failed to extract text from PDF URL",
          message |-> <<"Something went wrong processing your request">>,
          success |-> FALSE])
\* the catch block of the handler, entered with error.message = message
extractTextUrlCatch(rq, message) ==
    Send(rq, 500,
         [error |-> "Failed to extract text from PDF URL",
          message |-> message,
          success |-> FALSE])

\* the handler up to its first await: the missing-url check, the conversion
\* of the url and the call of fetch
extractTextUrl(r) ==
    /\ req[r].pc = "idle"
    /\ \E body \in UrlBodies :
         LET rq == [req[r] EXCEPT !.kind = "url", !.body = body]
         IN  req' = [req EXCEPT ![r] =
                 IF missingUrl(body)
                 THEN Send(rq, 400,
                           [error |-> "No PDF URL provided",
                            message |-> <<"Please provide a \"url\" field with the PDF URL">>])
                 ELSE [rq EXCEPT !.processedUrl = convertGoogleDriveUrl(body.url),
                                 !.pc = "fetching",
                                 !.events = Append(@, "fetch")]]
    /\ UNCHANGED <<disk, now>>

\* fetch and response.arrayBuffer() settle: a transport error, a response
\* that is not ok, a body that cannot be read, or the bytes, with which
\* pdfParse is called
fetch_settled(r) ==
    /\ req[r].pc = "fetching"
    /\ \E o \in FetchOutcomes :
         LET rq == [req[r] EXCEPT !.fetched = o]
         IN  req' = [req EXCEPT ![r] =
                 CASE o.kind = "ok" ->
                        [rq EXCEPT !.pc = "parsing", !.events = Append(@, "pdfParse")]
                   [] o.kind = "notok" ->
                        extractTextUrlCatch(rq, <<"Failed to fetch PDF: ", o.message>>)
                   [] OTHER ->
                        extractTextUrlCatch(rq, <<o.message>>)]
    /\ UNCHANGED <<disk, now>>

\* pdfParse settles and the handler of /extract-text-url resumes
extractTextUrl_resume(r, texts) ==
    /\ req[r].pc = "parsing"
    /\ req[r].kind = "url"
    /\ \E outcome \in ParseOutcomes(texts) :
       \E jsonFault \in IF outcome.kind = "ok" THEN BOOLEAN ELSE {FALSE} :
         LET rq == [req[r] EXCEPT !.parsed = outcome]
         IN  req' = [req EXCEPT ![r] =
                 IF outcome.kind = "ok" /\ jsonFault
                 THEN extractTextUrlCatch(
                          [rq EXCEPT !.events = Append(@, "jsonThrow")],
                          <<JsonError>>)
                 ELSE IF outcome.kind = "ok"
                 THEN Send(rq, 200,
                           [success |-> TRUE,
                            filename |-> rq.body.filename,
                            url |-> rq.body.url,
                            text |-> outcome.text,
                            textLength |-> textLength(outcome.text),
                            wordCount |-> wordCount(outcome.text)])
                 ELSE extractTextUrlCatch(rq, <<outcome.message>>)]
    /\ UNCHANGED <<disk, now>>

\* --------------------------------------------------------- specifications
\* one request of either endpoint, over the whole input space
Single == {1}

Next ==
    \/ \E r \in Single : upload_single(r, Uploads)
    \/ \E r \in Single : upload_end(r, BOOLEAN, CleanupFaults)
    \/ \E r \in Single : extractText_resume(r, Texts, CleanupFaults)
    \/ \E r \in Single : extractTextUrl(r)
    \/ \E r \in Single : fetch_settled(r)
    \/ \E r \in Single : extractTextUrl_resume(r, Texts)
    \/ Tick

Spec == Init /\ [][Next]_vars

\* concurrent uploads that arrive within one millisecond (Date.now() does
\* not advance between them), one upload of each fate
NextConcurrent ==
    \/ \E r \in Req : upload_single(r, SampleUploads)
    \/ \E r \in Req : upload_end(r, {FALSE}, CleanupFaults)
    \/ \E r \in Req : extractText_resume(r, SampleTexts, CleanupFaults)

SpecConcurrent == Init /\ [][NextConcurrent]_vars

\* ----------------------------------------------------------- properties
InEvents(rq, e) == \E i \in 1..Len(rq.events) : rq.events[i] = e
Responded(rq) == Len(rq.res) > 0
HasMessage(resp, m) == "message" \in DOMAIN resp.body /\ resp.body.message = m
\* a removal of the request's staged file failed (cleanupFile logged it)
RemovalFailed(rq) == rq.logged > 0

C2_NonPdfRejected ==
    \A r \in Req :
        (/\ req[r].kind = "upload"
         /\ req[r].upload.hasFile
         /\ req[r].upload.mimetype # "application/pdf"
         /\ req[r].upload.extname \notin {".pdf", ".PDF"})
        => /\ req[r].pc = "done"
           /\ Len(req[r].res) = 1
           /\ req[r].res[1].status = 400
           /\ req[r].res[1].body.message = <<"Only PDF files are allowed">>
           /\ req[r].events = <<"respond">>
           /\ req[r].path = NoPath
           /\ ~\E f \in disk : f.bytes = r

C2_Witness ==
    \E r \in Req :
        /\ req[r].upload.hasFile
        /\ req[r].upload.mimetype = "text/plain"
        /\ req[r].upload.extname = ".txt"
        /\ req[r].pc = "done"
        /\ req[r].res[1].status = 400

PdfTyped(u) == u.mimetype = "application/pdf" \/ u.extname \in {".pdf", ".PDF"}
SizeMessage == <<"PDF file size must be less than 10MB">>

\* C3: a PDF-typed upload of more than 10*1024*1024 bytes is answered 400
\* "PDF file size must be less than 10MB" and the parser is never called for
\* it; an upload of at most that many bytes is never answered with the size
\* error.
C3_SizeLimit ==
    \A r \in Req :
        (req[r].kind = "upload" /\ req[r].upload.hasFile /\ PdfTyped(req[r].upload))
        => IF req[r].upload.size > 10 * 1024 * 1024
           THEN /\ ~InEvents(req[r], "pdfParse")
                /\ ~InEvents(req[r], "readFileSync")
                /\ req[r].pc = "done" =>
                      /\ Len(req[r].res) = 1
                      /\ req[r].res[1].status = 400
                      /\ req[r].res[1].body.message = SizeMessage
           ELSE /\ \A i \in 1..Len(req[r].res) :
                      /\ ~HasMessage(req[r].res[i], SizeMessage)
                      /\ req[r].res[i].status # 400
                /\ req[r].pc = "done" => InEvents(req[r], "readFileSync")

C3_Witness ==
    \E r \in Req :
        /\ req[r].upload.size = 10 * 1024 * 1024 + 1
        /\ PdfTyped(req[r].upload)
        /\ req[r].pc = "done"
        /\ req[r].res[1].status = 400
        /\ req[r].res[1].body.message = SizeMessage

HasUrl(body) == "url" \in DOMAIN body
HasError(resp, e) == "error" \in DOMAIN resp.body /\ resp.body.error = e

IsDriveLink(url) == Len(url) >= 2 /\ url[1] = DrivePrefix /\ url[2] \in IdChars
\* <ID>: the id characters that follow the prefix
DriveId(url) ==
    LET ends == {k \in 2..Len(url) : \A j \in 2..k : url[j] \in IdChars}
    IN  SubSeq(url, 2, CHOOSE k \in ends : \A j \in ends : j <= k)

\* C5 as stated: the url fetched is the download url of <ID> when the given
\* url is a Google Drive file link https://drive.google.com/file/d/<ID>/...,
\* and the given url itself when it is not.
C5_FetchedUrl ==
    \A r \in Req :
        (req[r].kind = "url" /\ InEvents(req[r], "fetch"))
        => req[r].processedUrl =
              IF IsDriveLink(req[r].body.url)
              THEN <<DownloadPrefix>> \o DriveId(req[r].body.url)
              ELSE req[r].body.url

FailureText(rq) ==
    IF rq.fetched.kind = "ok" THEN rq.parsed.message ELSE rq.fetched.message

\* C6: once a url is supplied, a request to /extract-text-url whose fetch,
\* body read or parse failed is answered exactly once, with status 500,
\* success false and a message that carries the error text: the status text
\* of a response that is not ok, the transport error text, the parser's
\* message verbatim.
C6_UrlFailure ==
    \A r \in Req :
        (/\ req[r].kind = "url"
         /\ req[r].pc = "done"
         /\ InEvents(req[r], "fetch")
         /\ (req[r].fetched.kind # "ok" \/ req[r].parsed.kind # "ok"))
        => /\ Len(req[r].res) = 1
           /\ req[r].res[1].status = 500
           /\ req[r].res[1].body.success = FALSE
           /\ \E i \in 1..Len(req[r].res[1].body.message) :
                 req[r].res[1].body.message[i] = FailureText(req[r])
           /\ (req[r].fetched.kind # "notok")
                 => req[r].res[1].body.message = <<FailureText(req[r])>>
           /\ (req[r].fetched.kind # "ok") => ~InEvents(req[r], "pdfParse")

C6_Witness ==
    \E r \in Req :
        /\ req[r].kind = "url"
        /\ req[r].pc = "done"
        /\ req[r].fetched.kind = "notok"
        /\ req[r].fetched.message = "Not Found"
        /\ req[r].res[1].status = 500
        /\ req[r].res[1].body.message = <<"Failed to fetch PDF: ", "Not Found">>

\* the number of maximal runs of characters that are not whitespace
WordStarts(text) ==
    Cardinality({i \in 1..Len(text) :
        text[i] \notin {" ", "\n"} /\ (i = 1 \/ text[i - 1] \in {" ", "\n"})})
IsSuccess(resp) == "success" \in DOMAIN resp.body /\ resp.body.success = TRUE

\* C7: in every success response of either endpoint textLength is the length
\* of the text and wordCount the number of whitespace-separated words of
\* it: 0 for the empty text and for a text of whitespace only.
C7_Counts ==
    \A r \in Req : \A i \in 1..Len(req[r].res) :
        IsSuccess(req[r].res[i])
        => LET b == req[r].res[i].body
           IN  /\ b.textLength = Len(b.text)
               /\ b.wordCount = WordStarts(b.text)
               /\ (\A j \in 1..Len(b.text) : b.text[j] \in {" ", "\n"})
                     => b.wordCount = 0

C7_Witness ==
    \E r \in Req :
        /\ req[r].pc = "done"
        /\ IsSuccess(req[r].res[1])
        /\ req[r].res[1].body.text = <<"\n", "a", " ">>
        /\ req[r].res[1].body.wordCount = 1
        /\ req[r].res[1].body.textLength = 3

\* C8 as stated: every 400 or 500 response of the extraction endpoints has
\* a field success equal to false, an error category and a message.
C8_ErrorShape ==
    \A r \in Req : \A i \in 1..Len(req[r].res) :
        req[r].res[i].status \in {400, 500}
        => /\ {"success", "error", "message"} \subseteq DOMAIN req[r].res[i].body
           /\ req[r].res[i].body.success = FALSE

\* C9: a failing removal of the staged file is only logged; the request is
\* still answered exactly once, and with the response that the read and the
\* parse alone decide: the success response with the parsed text when both
\* succeeded (and the result could be serialised), the 500 response with the
\* error text when one of them failed.
C9_CleanupFailureSwallowed ==
    \A r \in Req :
        (req[r].kind = "upload" /\ req[r].pc = "done" /\ req[r].file.set)
        => /\ Len(req[r].res) = 1
           /\ IF req[r].readFailed
              THEN /\ req[r].res[1].status = 500
                   /\ req[r].res[1].body.success = FALSE
                   /\ req[r].res[1].body.error = "Failed to extract text from PDF"
              ELSE IF req[r].parsed.kind = "ok" /\ InEvents(req[r], "jsonThrow")
              THEN /\ req[r].res[1].status = 500
                   /\ req[r].res[1].body.success = FALSE
                   /\ req[r].res[1].body.message = <<JsonError>>
              ELSE IF req[r].parsed.kind = "ok"
              THEN /\ req[r].res[1].status = 200
                   /\ IsSuccess(req[r].res[1])
                   /\ req[r].res[1].body.text = req[r].parsed.text
                   /\ req[r].res[1].body.fileSize = req[r].upload.size
              ELSE /\ req[r].res[1].status = 500
                   /\ req[r].res[1].body.success = FALSE
                   /\ req[r].res[1].body.message = <<req[r].parsed.message>>

C9_Witness ==
    \E r1, r2 \in Req :
        /\ req[r1].pc = "done" /\ req[r2].pc = "done"
        /\ req[r1].logged > 0 /\ req[r2].logged > 0
        /\ req[r1].parsed.kind = "ok" /\ req[r1].res[1].status = 200
        /\ req[r2].parsed.kind = "reject" /\ req[r2].res[1].status = 500
        /\ Exists(disk, req[r1].path) /\ Exists(disk, req[r2].path)

\* C10 as stated: concurrent requests to /extract-text are given distinct
\* scratch file names, each reads the bytes staged for it, and a file is on
\* disk for as long as its request has not removed it.
C10_DistinctNames ==
    \A r1, r2 \in Req :
        /\ (r1 # r2 /\ req[r1].path # NoPath /\ req[r2].path # NoPath)
           => req[r1].path # req[r2].path
        /\ InEvents(req[r1], "pdfParse") => req[r1].buffer = r1
        /\ (req[r1].pc \in {"staged", "parsing"}) => Exists(disk, req[r1].path)

EventIndexes(rq, S) == {i \in 1..Len(rq.events) : rq.events[i] \in S}
Count(rq, S) == Cardinality(EventIndexes(rq, S))
\* the file was removed: by cleanupFile's unlink, or by multer on abort
Removals == {"unlink", "multerRemove"}
\* a removal was attempted
Cleanups == {"cleanupFile", "multerRemove"}
Before(rq, S, T) ==
    \A i \in EventIndexes(rq, S) : \A j \in EventIndexes(rq, T) : i < j

\* C11 as stated: a request to /extract-text that staged a file removes it
\* exactly once, before its response is sent and, on the success path, after
\* the extraction.
C11_RemovedExactlyOnce ==
    \A r \in Req :
        (req[r].kind = "upload" /\ req[r].path # NoPath /\ Responded(req[r]))
        => /\ Count(req[r], Removals) = 1
           /\ Before(req[r], Removals, {"respond"})
           /\ req[r].res[1].status = 200 => Before(req[r], {"pdfParse"}, Removals)

\* C11 amended: a request to /extract-text that staged a file removes it at
\* most once; before its response is sent a removal has been attempted, after
\* the extraction on the success path, and none is attempted afterwards; the
\* file is removed exactly once unless the removal threw (which is logged) or
\* the file was already gone because a request given the same name removed
\* it; a throw of res.json after the success-path cleanup leads to no second
\* removal.
C11_RemovedAtMostOnceBeforeResponse ==
    \A r \in Req :
        (req[r].kind = "upload" /\ req[r].path # NoPath)
        => /\ Count(req[r], Removals) <= 1
           /\ Responded(req[r]) =>
                 /\ Count(req[r], Cleanups) >= 1
                 /\ Before(req[r], Cleanups \cup Removals, {"respond"})
                 /\ req[r].res[1].status = 200 =>
                       Before(req[r], {"pdfParse"}, Cleanups \cup Removals)
                 /\ Count(req[r], Removals) = 0 =>
                       \/ req[r].logged > 0
                       \/ \E r2 \in Req \ {r} :
                             /\ req[r2].path = req[r].path
                             /\ Count(req[r2], Removals) = 1

C11_Witness ==
    \E r \in Req :
        /\ req[r].pc = "done"
        /\ req[r].events = <<"stage", "readFileSync", "pdfParse", "cleanupFile",
                             "unlink", "jsonThrow", "cleanupFile", "respond">>
        /\ req[r].res[1].status = 500
        /\ ~Exists(disk, req[r].path)

Acquisitions == {"readFileSync", "fetch"}
Stages == Acquisitions \cup {"pdfParse"}

\* the stages and responses of one request, in any state
C12_Stages(rq) ==
    /\ Count(rq, Acquisitions) <= 1
    /\ Count(rq, {"pdfParse"}) <= 1
    /\ Count(rq, {"respond"}) = Len(rq.res)
    /\ Len(rq.res) <= 1
    /\ rq.pc = "done" <=> Len(rq.res) = 1
    \* Acquiring before Extracting before the response
    /\ Count(rq, {"pdfParse"}) = 1 => Count(rq, Acquisitions) = 1
    /\ Before(rq, Acquisitions, {"pdfParse"})
    /\ Before(rq, Stages, {"respond"})
    /\ rq.pc \in {"idle", "staged"} => Count(rq, Stages) = 0
    /\ rq.pc = "fetching" => Count(rq, {"fetch"}) = 1 /\ Count(rq, {"pdfParse"}) = 0
    /\ rq.pc = "parsing" => Count(rq, {"pdfParse"}) = 1
    \* no stage after a failed one
    /\ (rq.readFailed \/ rq.fetched.kind \in {"reject", "notok", "body"})
          => Count(rq, {"pdfParse"}) = 0
    \* a success response only after every stage succeeded
    /\ \A i \in 1..Len(rq.res) :
          IF IsSuccess(rq.res[i])
          THEN /\ rq.res[i].status = 200
               /\ Count(rq, Acquisitions) = 1
               /\ Count(rq, {"pdfParse"}) = 1
               /\ ~rq.readFailed
               /\ rq.parsed.kind = "ok"
               /\ rq.kind = "url" => rq.fetched.kind = "ok"
               /\ rq.res[i].body.text = rq.parsed.text
          ELSE rq.res[i].status \in {400, 500}

\* C12: a request performs at most one acquisition (file read or fetch) and
\* at most one parse, acquisition before parse before the response; it ends
\* with exactly one response, a success response only after every stage
\* succeeded and an error response otherwise; after a failed stage no later
\* stage runs, and once the response is sent nothing more happens to the
\* request.
C12_OnePassOneResponse ==
    /\ [](\A r \in Req : C12_Stages(req[r]))
    /\ [][\A r \in Req : Responded(req[r]) => req'[r] = req[r]]_vars

C12_Witness ==
    \E r \in Req :
        /\ req[r].kind = "url"
        /\ req[r].events = <<"fetch", "pdfParse", "respond">>
        /\ Len(req[r].res) = 1
        /\ IsSuccess(req[r].res[1])

====
